---- MODULE Spec2Model ----
(***************************************************************************)
(* The notebook embedding example (class JupyterLab): the promise returned *)
(* by createServiceManager, the createApp callback statement by statement, *)
(* the command registry, palette and keymap it fills, and the keydown,     *)
(* palette and resize events the page dispatches afterwards.               *)
(***************************************************************************)
EXTENDS Integers, Sequences, FiniteSets, TLC

VARIABLES
    promise,          \* createServiceManager(...) promise: unstarted/pending/fulfilled/rejected
    pc,               \* position of the createApp callback: 0 not run, i next statement, Done
    keydownListener,  \* document.addEventListener('keydown', ...) installed
    mimetypes,        \* t.mimetypes of every transformer (declared by the toolkit)
    rendermime,       \* new RenderMime({renderers, order, sanitizer}) constructed
    renderers,        \* mime type -> transformer
    order,            \* preference list of mime types
    nbWidget,         \* docManager.open(this.NOTEBOOK) has returned the panel
    attached,         \* Widget.attach(panel, container) done
    onresize,         \* window.onresize handler installed
    commands,         \* CommandRegistry: id -> label
    palette,          \* CommandPalette items: set of [command, category]
    keymap,           \* Keymap bindings, in addBinding order
    pending,          \* keys of a partially matched chord held by the keymap
    mode,             \* nbWidget.content.mode
    kernel,           \* nbWidget.context.kernel is present
    last              \* what the most recent step dispatched and called

vars == <<promise, pc, keydownListener, mimetypes, rendermime, renderers, order,
          nbWidget, attached, onresize, commands, palette, keymap, pending,
          mode, kernel, last>>

\* The state createApp writes once (command table, palette, keymap, layout).
controller == <<keydownListener, rendermime, renderers, order, nbWidget, attached,
                onresize, commands, palette, keymap>>

(***************************************************************************)
(* Bounds of the renderer inputs drawn by SpecRender.                      *)
(***************************************************************************)
NumMimes == 1
MaxDecl == 1

(***************************************************************************)
(* Tables of the source.                                                   *)
(***************************************************************************)
cmdIds ==
    [ save          |-> "notebook:save",
      interrupt     |-> "notebook:interrupt-kernel",
      restart       |-> "notebook:restart-kernel",
      switchKernel  |-> "notebook:switch-kernel",
      runAndAdvance |-> "notebook-cells:run-and-advance",
      deleteCell    |-> "notebook-cells:delete",
      selectAbove   |-> "notebook-cells:select-above",
      selectBelow   |-> "notebook-cells:select-below",
      extendAbove   |-> "notebook-cells:extend-above",
      extendBelow   |-> "notebook-cells:extend-below",
      editMode      |-> "notebook:edit-mode",
      merge         |-> "notebook-cells:merge",
      split         |-> "notebook-cells:split",
      commandMode   |-> "notebook:command-mode",
      undo          |-> "notebook-cells:undo",
      redo          |-> "notebook-cells:redo" ]

CmdIdValues == {cmdIds[f] : f \in DOMAIN cmdIds}

transformers ==
    << "JavascriptRenderer", "MarkdownRenderer", "HTMLRenderer", "ImageRenderer",
       "SVGRenderer", "LatexRenderer", "TextRenderer" >>

\* The commands.addCommand calls, in source order.
addCommands ==
    << [id |-> cmdIds.save,          label |-> "Save"],
       [id |-> cmdIds.interrupt,     label |-> "Interrupt"],
       [id |-> cmdIds.restart,       label |-> "Restart Kernel"],
       [id |-> cmdIds.switchKernel,  label |-> "Switch Kernel"],
       [id |-> cmdIds.runAndAdvance, label |-> "Run and Advance"],
       [id |-> cmdIds.editMode,      label |-> "Edit Mode"],
       [id |-> cmdIds.commandMode,   label |-> "Command Mode"],
       [id |-> cmdIds.selectBelow,   label |-> "Select Below"],
       [id |-> cmdIds.selectAbove,   label |-> "Select Above"],
       [id |-> cmdIds.extendAbove,   label |-> "Extend Above"],
       [id |-> cmdIds.extendBelow,   label |-> "Extend Below"],
       [id |-> cmdIds.merge,         label |-> "Merge Cells"],
       [id |-> cmdIds.split,         label |-> "Split Cell"],
       [id |-> cmdIds.undo,          label |-> "Undo"],
       [id |-> cmdIds.redo,          label |-> "Redo"] >>

\* The palette.addItem calls, in source order.
paletteItems ==
    << [command |-> cmdIds.interrupt,     category |-> "Notebook Operations"],
       [command |-> cmdIds.restart,       category |-> "Notebook Operations"],
       [command |-> cmdIds.editMode,      category |-> "Notebook Operations"],
       [command |-> cmdIds.commandMode,   category |-> "Notebook Operations"],
       [command |-> cmdIds.switchKernel,  category |-> "Notebook Operations"],
       [command |-> cmdIds.runAndAdvance, category |-> "Notebook Cell Operations"],
       [command |-> cmdIds.split,         category |-> "Notebook Cell Operations"],
       [command |-> cmdIds.merge,         category |-> "Notebook Cell Operations"],
       [command |-> cmdIds.selectAbove,   category |-> "Notebook Cell Operations"],
       [command |-> cmdIds.selectBelow,   category |-> "Notebook Cell Operations"],
       [command |-> cmdIds.extendAbove,   category |-> "Notebook Cell Operations"],
       [command |-> cmdIds.extendBelow,   category |-> "Notebook Cell Operations"],
       [command |-> cmdIds.undo,          category |-> "Notebook Cell Operations"],
       [command |-> cmdIds.redo,          category |-> "Notebook Cell Operations"] >>

selNotebook == ".jp-Notebook"
selCommandMode == ".jp-Notebook.jp-mod-commandMode"
selEditMode == ".jp-Notebook.jp-mod-editMode"

Binding(s, k, c) == [selector |-> s, keys |-> k, command |-> c]

\* The table as the source writes it.
bindingsTable ==
    << Binding(selNotebook,    <<"Shift Enter">>,  cmdIds.runAndAdvance),
       Binding(selNotebook,    <<"Accel S">>,      cmdIds.save),
       Binding(selCommandMode, <<"I", "I">>,       cmdIds.interrupt),
       Binding(selCommandMode, <<"0", "0">>,       cmdIds.restart),
       Binding(selCommandMode, <<"Enter">>,        cmdIds.editMode),
       Binding(selEditMode,    <<"Escape">>,       cmdIds.commandMode),
       Binding(selCommandMode, <<"Shift M">>,      cmdIds.merge),
       Binding(selEditMode,    <<"Ctrl Shift -">>, cmdIds.split),
       Binding(selCommandMode, <<"J">>,            cmdIds.selectBelow),
       Binding(selCommandMode, <<"ArrowDown">>,    cmdIds.selectBelow),
       Binding(selCommandMode, <<"K">>,            cmdIds.selectAbove),
       Binding(selCommandMode, <<"ArrowUp">>,      cmdIds.selectAbove),
       Binding(selCommandMode, <<"Shift K">>,      cmdIds.extendAbove),
       Binding(selCommandMode, <<"Shift J">>,      cmdIds.extendBelow),
       Binding(selCommandMode, <<"Z">>,            cmdIds.undo),
       Binding(selCommandMode, <<"Y">>,            cmdIds.redo) >>

\* Plausible slips in the table.
bindingsWithDelete ==
    Append(bindingsTable, Binding(selCommandMode, <<"D", "D">>, cmdIds.deleteCell))

bindingsUnscopedJ ==
    [bindingsTable EXCEPT ![9] = Binding(selNotebook, <<"J">>, cmdIds.selectBelow)]

bindingsPrefixI ==
    Append(bindingsTable, Binding(selCommandMode, <<"I">>, cmdIds.editMode))

bindings == bindingsTable


(***************************************************************************)
(* The renderer map and preference order built from the transformer list.  *)
(***************************************************************************)
Mimes == 1..NumMimes
MimeSeqs == UNION {[1..n -> Mimes] : n \in 0..MaxDecl}
TransformerSet == {transformers[i] : i \in 1..Len(transformers)}
Range(s) == {s[i] : i \in 1..Len(s)}

\* Each toolkit renderer declares its own types; the main specification uses
\* one distinct type per transformer.
defaultMimetypes ==
    [t \in TransformerSet |-> <<CHOOSE i \in 1..Len(transformers) : transformers[i] = t>>]

\* renderers[m] = t
MapSet(r, m, t) == [x \in (DOMAIN r) \cup {m} |-> IF x = m THEN t ELSE r[x]]

\* for (let m of t.mimetypes) { renderers[m] = t; order.push(m); }
RECURSIVE InnerLoop(_, _, _, _)
InnerLoop(acc, t, ms, j) ==
    IF j > Len(ms) THEN acc
    ELSE InnerLoop([renderers |-> MapSet(acc.renderers, ms[j], t),
                    order     |-> Append(acc.order, ms[j])], t, ms, j + 1)

\* for (let t of transformers) { ... }
RECURSIVE OuterLoop(_, _, _)
OuterLoop(acc, mt, i) ==
    IF i > Len(transformers) THEN acc
    ELSE OuterLoop(InnerLoop(acc, transformers[i], mt[transformers[i]], 1), mt, i + 1)

BuildRenderMime(mt) == OuterLoop([renderers |-> <<>>, order |-> <<>>], mt, 1)

(***************************************************************************)
(* The command actions.  Each yields the calls it makes into the notebook  *)
(* API, the notebook mode it leaves, and whether it threw.                 *)
(***************************************************************************)
Result(calls, m) == [calls |-> calls, mode |-> m, error |-> FALSE]

\* The registered actions, as the source writes them.
executeTable(id, m, k) ==
    CASE id = cmdIds.save          -> Result(<<"context.save">>, m)
      [] id = cmdIds.interrupt     ->
            IF k THEN Result(<<"kernel.interrupt">>, m) ELSE Result(<<>>, m)
      [] id = cmdIds.restart       -> Result(<<"restartKernel">>, m)
      [] id = cmdIds.switchKernel  -> Result(<<"selectKernelForContext">>, m)
      [] id = cmdIds.runAndAdvance -> Result(<<"NotebookActions.runAndAdvance">>, m)
      [] id = cmdIds.editMode      -> Result(<<"content.mode=">>, "edit")
      [] id = cmdIds.commandMode   -> Result(<<"content.mode=">>, "command")
      [] id = cmdIds.selectBelow   -> Result(<<"NotebookActions.selectBelow">>, m)
      [] id = cmdIds.selectAbove   -> Result(<<"NotebookActions.selectAbove">>, m)
      [] id = cmdIds.extendAbove   -> Result(<<"NotebookActions.extendSelectionAbove">>, m)
      [] id = cmdIds.extendBelow   -> Result(<<"NotebookActions.extendSelectionBelow">>, m)
      [] id = cmdIds.merge         -> Result(<<"NotebookActions.mergeCells">>, m)
      [] id = cmdIds.split         -> Result(<<"NotebookActions.splitCell">>, m)
      [] id = cmdIds.undo          -> Result(<<"NotebookActions.undo">>, m)
      [] id = cmdIds.redo          -> Result(<<"NotebookActions.redo">>, m)
      [] OTHER                     -> [calls |-> <<>>, mode |-> m, error |-> TRUE]

\* Interrupt without the presence check: kernel.interrupt() on a missing kernel throws.
executeUnguardedInterrupt(id, m, k) ==
    IF id = cmdIds.interrupt
    THEN [calls |-> <<"kernel.interrupt">>, mode |-> m, error |-> ~k]
    ELSE executeTable(id, m, k)

\* Save that also runs the cell.
executeSaveAndRun(id, m, k) ==
    IF id = cmdIds.save
    THEN Result(<<"context.save", "NotebookActions.runAndAdvance">>, m)
    ELSE executeTable(id, m, k)

execute(id, m, k) == executeTable(id, m, k)

\* window.onresize = () => panel.update()
onresizeTwice == <<"panel.update", "panel.update">>

onresizeHandler == <<"panel.update">>

(***************************************************************************)
(* The statements of createApp, in order.                                  *)
(***************************************************************************)
Prelude == <<"addEventListener", "rendermime", "open", "attach", "onresize">>

CmdBase == Len(Prelude)
ItemBase == CmdBase + Len(addCommands)
BindBase == ItemBase + Len(paletteItems)
Done == BindBase + Len(bindings) + 1

StmtAt(p) ==
    IF p <= CmdBase THEN [op |-> Prelude[p]]
    ELSE IF p <= ItemBase THEN [op |-> "addCommand", cmd |-> addCommands[p - CmdBase]]
    ELSE IF p <= BindBase THEN [op |-> "addItem", item |-> paletteItems[p - ItemBase]]
    ELSE [op |-> "addBinding", binding |-> bindings[p - BindBase]]

\* createApp has no suspension point: while it runs no event handler runs.
StackEmptyInterleaved == TRUE

StackEmpty == pc \notin 1..(Done - 1)

\* .then(manager => this.createApp(manager)) with a second, rejection handler.
thenCallbackOnSettle(p) == p \in {"fulfilled", "rejected"}

thenCallbackRuns(p) == p = "fulfilled"


(***************************************************************************)
(* The step record: which event the most recent step dispatched, and what  *)
(* the handler did.                                                        *)
(***************************************************************************)
Step(kind) ==
    [ kind     |-> kind,      \* "none", "setup", "env", "keydown", "palette", "resize"
      keys     |-> <<>>,      \* the chord typed so far, this key included
      target   |-> "none",    \* where the key event was targeted
      mode     |-> mode,      \* notebook mode when the event was dispatched
      selector |-> "none",    \* selector of the binding that fired
      matches  |-> {},        \* command ids of the bindings matching the chord exactly
      exec     |-> "none",    \* command id executed
      calls    |-> <<>>,      \* calls made into the notebook API / layout
      error    |-> FALSE ]    \* the handler threw

Init ==
    /\ promise = "unstarted"
    /\ pc = 0
    /\ keydownListener = FALSE
    /\ mimetypes = defaultMimetypes
    /\ rendermime = FALSE
    /\ renderers = <<>>
    /\ order = <<>>
    /\ nbWidget = FALSE
    /\ attached = FALSE
    /\ onresize = FALSE
    /\ commands = <<>>
    /\ palette = {}
    /\ keymap = <<>>
    /\ pending = <<>>
    /\ mode = "command"
    /\ kernel = FALSE
    /\ last = Step("none")

(***************************************************************************)
(* Startup.                                                                *)
(***************************************************************************)
embedJupyterLabUI ==
    /\ promise = "unstarted"
    /\ promise' = "pending"
    /\ last' = Step("setup")
    /\ UNCHANGED <<pc, controller, mimetypes, pending, mode, kernel>>

\* The service manager is created: the promise is fulfilled.
Resolve ==
    /\ promise = "pending"
    /\ promise' = "fulfilled"
    /\ last' = Step("env")
    /\ UNCHANGED <<pc, controller, mimetypes, pending, mode, kernel>>

\* The backend cannot be reached: the promise is rejected.
Reject ==
    /\ promise = "pending"
    /\ promise' = "rejected"
    /\ last' = Step("env")
    /\ UNCHANGED <<pc, controller, mimetypes, pending, mode, kernel>>

\* The then-callback is entered.
thenCallback ==
    /\ pc = 0
    /\ thenCallbackRuns(promise)
    /\ pc' = 1
    /\ last' = Step("setup")
    /\ UNCHANGED <<promise, controller, mimetypes, pending, mode, kernel>>

\* One statement of createApp.
createApp ==
    /\ pc \in 1..(Done - 1)
    /\ LET s == StmtAt(pc)
           rm == BuildRenderMime(mimetypes)
       IN  /\ keydownListener' = (keydownListener \/ s.op = "addEventListener")
           /\ rendermime' = (rendermime \/ s.op = "rendermime")
           /\ renderers' = IF s.op = "rendermime" THEN rm.renderers ELSE renderers
           /\ order' = IF s.op = "rendermime" THEN rm.order ELSE order
           /\ nbWidget' = (nbWidget \/ s.op = "open")
           /\ attached' = (attached \/ s.op = "attach")
           /\ onresize' = (onresize \/ s.op = "onresize")
           /\ commands' = IF s.op = "addCommand"
                          THEN MapSet(commands, s.cmd.id, s.cmd.label)
                          ELSE commands
           /\ palette' = IF s.op = "addItem" THEN palette \cup {s.item} ELSE palette
           /\ keymap' = IF s.op = "addBinding" THEN Append(keymap, s.binding) ELSE keymap
    /\ pc' = pc + 1
    /\ last' = Step("setup")
    /\ UNCHANGED <<promise, mimetypes, pending, mode, kernel>>

(***************************************************************************)
(* The keymap (toolkit behaviour): a binding is active when its selector   *)
(* matches the event target, and the notebook node carries jp-Notebook     *)
(* plus the class of its mode.                                             *)
(***************************************************************************)
SelectorClasses(sel) ==
    CASE sel = selNotebook    -> {"jp-Notebook"}
      [] sel = selCommandMode -> {"jp-Notebook", "jp-mod-commandMode"}
      [] sel = selEditMode    -> {"jp-Notebook", "jp-mod-editMode"}

NotebookClasses(m) ==
    {"jp-Notebook", IF m = "edit" THEN "jp-mod-editMode" ELSE "jp-mod-commandMode"}

Matches(sel, target, m) ==
    /\ target = "notebook"
    /\ SelectorClasses(sel) \subseteq NotebookClasses(m)

IsStrictPrefix(a, b) == Len(a) < Len(b) /\ SubSeq(b, 1, Len(a)) = a

Active(km, target, m) == {i \in 1..Len(km) : Matches(km[i].selector, target, m)}
Exact(km, ks, target, m) == {i \in Active(km, target, m) : km[i].keys = ks}
Partial(km, ks, target, m) == {i \in Active(km, target, m) : IsStrictPrefix(ks, km[i].keys)}

\* commands.execute(id): an unregistered id runs nothing and is rejected.
commandsExecute(id, m, k) ==
    IF id \in DOMAIN commands THEN execute(id, m, k)
    ELSE [calls |-> <<>>, mode |-> m, error |-> TRUE]

Keys == UNION {Range(bindings[i].keys) : i \in 1..Len(bindings)} \cup {"A"}
Targets == {"notebook", "palette"}

(***************************************************************************)
(* Events.                                                                 *)
(***************************************************************************)
\* A keydown event on the document; the capturing listener hands it to the keymap.
Keydown(key, target) ==
    /\ StackEmpty
    /\ LET ks == Append(pending, key)
           ex == Exact(keymap, ks, target, mode)
           pa == Partial(keymap, ks, target, mode)
           ev == [Step("keydown") EXCEPT !.keys = ks, !.target = target,
                                         !.matches = {keymap[i].command : i \in ex}]
       IN  IF ~keydownListener
           THEN /\ last' = [Step("keydown") EXCEPT !.target = target]
                /\ UNCHANGED <<pending, mode>>
           ELSE IF ex = {} /\ pa = {}
           THEN /\ pending' = <<>>
                /\ last' = ev
                /\ UNCHANGED mode
           ELSE IF pa # {}
           THEN /\ pending' = ks
                /\ last' = ev
                /\ UNCHANGED mode
           ELSE \E i \in ex :
                   LET r == commandsExecute(keymap[i].command, mode, kernel)
                   IN  /\ pending' = <<>>
                       /\ mode' = r.mode
                       /\ last' = [ev EXCEPT !.selector = keymap[i].selector,
                                             !.exec = keymap[i].command,
                                             !.calls = r.calls,
                                             !.error = r.error]
    /\ UNCHANGED <<promise, pc, controller, mimetypes, kernel>>

\* A click on an item of the command palette.
PaletteClick(item) ==
    /\ StackEmpty
    /\ attached
    /\ item \in palette
    /\ LET r == commandsExecute(item.command, mode, kernel)
       IN  /\ mode' = r.mode
           /\ last' = [Step("palette") EXCEPT !.exec = item.command,
                                              !.calls = r.calls,
                                              !.error = r.error]
    /\ UNCHANGED <<promise, pc, controller, mimetypes, pending, kernel>>

\* A window resize event.
Resize ==
    /\ StackEmpty
    /\ last' = [Step("resize") EXCEPT !.calls = IF onresize THEN onresizeHandler ELSE <<>>]
    /\ UNCHANGED <<promise, pc, controller, mimetypes, pending, mode, kernel>>

\* The notebook's session gains or loses its kernel.
KernelChange ==
    /\ StackEmpty
    /\ nbWidget
    /\ kernel' = ~kernel
    /\ last' = Step("env")
    /\ UNCHANGED <<promise, pc, controller, mimetypes, pending, mode>>

\* The notebook widget changes its own mode (focus moves into or out of an editor).
ModeChange ==
    /\ StackEmpty
    /\ nbWidget
    /\ mode' = IF mode = "edit" THEN "command" ELSE "edit"
    /\ last' = Step("env")
    /\ UNCHANGED <<promise, pc, controller, mimetypes, pending, kernel>>

Next ==
    \/ embedJupyterLabUI
    \/ Resolve
    \/ Reject
    \/ thenCallback
    \/ createApp
    \/ \E key \in Keys, target \in Targets : Keydown(key, target)
    \/ \E item \in Range(paletteItems) : PaletteClick(item)
    \/ Resize
    \/ KernelChange
    \/ ModeChange

Spec == Init /\ [][Next]_vars

(***************************************************************************)
(* The renderer setup on its own, over every declaration of mime types     *)
(* within the bounds.                                                      *)
(***************************************************************************)
InitRender ==
    /\ mimetypes \in [TransformerSet -> MimeSeqs]
    /\ promise = "unstarted"
    /\ pc = 0
    /\ keydownListener = FALSE
    /\ rendermime = FALSE
    /\ renderers = <<>>
    /\ order = <<>>
    /\ nbWidget = FALSE
    /\ attached = FALSE
    /\ onresize = FALSE
    /\ commands = <<>>
    /\ palette = {}
    /\ keymap = <<>>
    /\ pending = <<>>
    /\ mode = "command"
    /\ kernel = FALSE
    /\ last = Step("none")

RenderMimeSetup ==
    /\ ~rendermime
    /\ rendermime' = TRUE
    /\ renderers' = BuildRenderMime(mimetypes).renderers
    /\ order' = BuildRenderMime(mimetypes).order
    /\ last' = Step("setup")
    /\ UNCHANGED <<promise, pc, keydownListener, mimetypes, nbWidget, attached, onresize,
                   commands, palette, keymap, pending, mode, kernel>>

NextRender == RenderMimeSetup

SpecRender == InitRender /\ [][NextRender]_vars


(***************************************************************************)
(* Properties.                                                             *)
(***************************************************************************)
Events == {"keydown", "palette", "resize"}
RegisteredIds == {addCommands[i].id : i \in 1..Len(addCommands)}
TablesComplete ==
    /\ DOMAIN commands = RegisteredIds
    /\ keymap = bindings
    /\ palette = Range(paletteItems)
TablesEmpty == DOMAIN commands = {} /\ keymap = <<>> /\ palette = {}

\* C1: after a successful mount the command registry holds exactly 16 commands,
\* one for every id of cmdIds, 'notebook-cells:delete' included.
C1_AllCmdIdsRegistered ==
    pc = Done => /\ DOMAIN commands = CmdIdValues
                 /\ Cardinality(DOMAIN commands) = 16

\* C2: nothing of the UI (panel, keydown listener, resize handler, command, palette
\* item, key binding) exists unless the createServiceManager promise was fulfilled.
C2_NoUiWithoutConnection ==
    (\/ attached \/ keydownListener \/ onresize \/ nbWidget \/ rendermime
     \/ DOMAIN commands # {} \/ palette # {} \/ keymap # <<>> \/ pc # 0)
        => promise = "fulfilled"

\* A rejected connection, and an event dispatched after it with no UI present.
C2_Witness ==
    /\ promise = "rejected"
    /\ last.kind = "keydown"
    /\ ~attached /\ ~keydownListener

\* C3: every binding added to the keymap names a command id already registered
\* with addCommand, and a chord never dispatches to an unregistered command.
C3_BindingsResolve ==
    /\ \A i \in 1..Len(keymap) : keymap[i].command \in DOMAIN commands
    /\ (last.kind = "keydown" /\ last.exec # "none")
          => (last.exec \in DOMAIN commands /\ ~last.error)

\* The whole table is bound and a chord has dispatched its command.
C3_Witness ==
    /\ pc = Done
    /\ Len(keymap) = Len(bindings)
    /\ last.kind = "keydown"
    /\ last.exec = cmdIds.runAndAdvance

\* C4 (as stated): every execution of a command makes exactly one call into the
\* notebook API.
C4_ExactlyOneCall ==
    last.exec # "none" => Len(last.calls) = 1

\* C4 (amended): every execution of a registered command makes at most one call
\* into the notebook API, none exactly when it is interrupt with no kernel, does
\* not throw, and changes no state owned by the controller.
C4_AtMostOneCall ==
    [][ last'.exec # "none" =>
          /\ last'.exec \in DOMAIN commands
          /\ Len(last'.calls) <= 1
          /\ (Len(last'.calls) = 0) <=> (last'.exec = cmdIds.interrupt /\ ~kernel)
          /\ ~last'.error
          /\ UNCHANGED controller ]_vars

\* The I I chord has run interrupt with no kernel, and nothing was called.
C4_Witness ==
    /\ last.kind = "keydown"
    /\ last.exec = cmdIds.interrupt
    /\ ~kernel
    /\ last.calls = <<>>

\* C5: interrupt with no kernel calls nothing, throws nothing and changes no other
\* state; with a kernel it calls kernel.interrupt exactly once.
C5_InterruptGuard ==
    [][ last'.exec = cmdIds.interrupt =>
          IF kernel
          THEN last'.calls = <<"kernel.interrupt">> /\ ~last'.error
          ELSE /\ last'.calls = <<>>
               /\ ~last'.error
               /\ UNCHANGED <<promise, pc, controller, mimetypes, mode, kernel>> ]_vars

\* Interrupt run from the palette with no kernel.
C5_Witness ==
    /\ last.kind = "palette"
    /\ last.exec = cmdIds.interrupt
    /\ ~kernel
    /\ ~last.error

\* The earliest transformer declaring mime type m.
FirstDeclarer(m) ==
    transformers[CHOOSE i \in 1..Len(transformers) :
                    /\ m \in Range(mimetypes[transformers[i]])
                    /\ \A j \in 1..(i - 1) : m \notin Range(mimetypes[transformers[j]])]

\* C6: a mime type declared by more than one transformer is mapped to the
\* transformer that contributed its first occurrence in the order list.
C6_FirstDeclarerWins ==
    rendermime => \A m \in DOMAIN renderers : renderers[m] = FirstDeclarer(m)

\* C7: a resize event after a successful mount makes exactly one panel.update()
\* call, and a resize event before it makes none.
C7_ResizeUpdatesOnce ==
    last.kind = "resize" =>
        last.calls = IF pc = Done THEN <<"panel.update">> ELSE <<>>

\* A resize event handled after the mount.
C7_Witness ==
    /\ last.kind = "resize"
    /\ pc = Done
    /\ Len(last.calls) = 1

\* C8: no event is dispatched while the tables are partially populated (an event
\* that finds the listener, the panel or the resize handler installed finds the
\* tables complete), no event changes the tables, and once complete they never change.
C8_WriteOnceTables ==
    [][ /\ last'.kind \in Events =>
              /\ UNCHANGED <<commands, keymap, palette>>
              /\ TablesComplete \/ TablesEmpty
              /\ (keydownListener \/ attached \/ onresize) => TablesComplete
        /\ TablesComplete => UNCHANGED <<commands, keymap, palette>> ]_vars

\* A chord handled by the listener after setup, with the tables complete.
C8_Witness ==
    /\ TablesComplete
    /\ keydownListener
    /\ last.kind = "keydown"
    /\ last.exec = cmdIds.save

CommandModeChords ==
    { <<"I", "I">>, <<"0", "0">>, <<"Enter">>, <<"Shift M">>, <<"J">>, <<"K">>,
      <<"ArrowDown">>, <<"ArrowUp">>, <<"Shift J">>, <<"Shift K">>, <<"Z">>, <<"Y">> }
EditModeChords == { <<"Escape">>, <<"Ctrl Shift -">> }

\* C9: a chord executes only through a binding scoped to the notebook or to the
\* notebook's current mode; command-mode chords never execute in edit mode, Escape
\* and Ctrl Shift - never execute in command mode, and Shift Enter and Accel S
\* execute in both.
C9_ScopedByMode ==
    /\ (last.kind = "keydown" /\ last.exec # "none") =>
          /\ last.mode = "edit" =>
                /\ last.selector \in {selNotebook, selEditMode}
                /\ last.keys \notin CommandModeChords
          /\ last.mode = "command" =>
                /\ last.selector \in {selNotebook, selCommandMode}
                /\ last.keys \notin EditModeChords
    /\ (last.kind = "keydown" /\ keydownListener /\ last.target = "notebook") =>
          /\ last.keys = <<"Shift Enter">> => last.exec = cmdIds.runAndAdvance
          /\ last.keys = <<"Accel S">> => last.exec = cmdIds.save

\* J typed in edit mode on the notebook: handled by the keymap, nothing executed.
C9_Witness ==
    /\ keydownListener
    /\ last.kind = "keydown"
    /\ last.target = "notebook"
    /\ last.mode = "edit"
    /\ last.keys = <<"J">>
    /\ last.exec = "none"

SameModeScopes(m) == {selNotebook, IF m = "edit" THEN selEditMode ELSE selCommandMode}

\* C10: among bindings whose scopes can be active in the same mode no two have the
\* same key sequence and none is a strict prefix of another, so a typed chord
\* matches at most one command id.
C10_DeterministicDispatch ==
    /\ \A m \in {"edit", "command"} :
          \A i, j \in {n \in 1..Len(keymap) : keymap[n].selector \in SameModeScopes(m)} :
             i # j => /\ keymap[i].keys # keymap[j].keys
                      /\ ~IsStrictPrefix(keymap[i].keys, keymap[j].keys)
    /\ last.kind = "keydown" => Cardinality(last.matches) <= 1

\* The two-key chord I I resolved to its single command.
C10_Witness ==
    /\ pc = Done
    /\ last.kind = "keydown"
    /\ last.keys = <<"I", "I">>
    /\ last.matches = {cmdIds.interrupt}

====
